---- MODULE Spec2Model ----
(***************************************************************************)
(* A model of glide's repo/installer.go: the Concurrent Update Dispatcher  *)
(* (ConcurrentUpdate), the Package Aggregator (depsFromPackages), the      *)
(* Missing Package Resolver (MissingPackageHandler.NotFound / OnGopath),   *)
(* the Version Reconciler (VersionHandler.SetVersion) and the Installer    *)
(* entry points that wire them together.                                   *)
(*                                                                         *)
(* Each component has its own specification over its own group of          *)
(* variables; the other groups stay at their idle values.                  *)
(***************************************************************************)
EXTENDS Naturals, Sequences, FiniteSets, TLC

VARIABLES
    \* ---- ConcurrentUpdate (installer.go 288-333) ----
    deps,        \* the dependency list handed to ConcurrentUpdate (record ids)
    mainPc,      \* position of the dispatching goroutine
    ii,          \* loop counter of the two `for ii` loops
    di,          \* number of records of deps already sent
    in,          \* chan *cfg.Dependency, buffered (FIFO content)
    done,        \* chan struct{}, buffered (number of signals in it)
    wg,          \* sync.WaitGroup counter
    lock,        \* sync.Mutex: 0 when free, else the worker holding it
    returnErr,   \* the shared combined error value
    wPc,         \* position of each worker goroutine
    wDep,        \* the record a worker received (dep)
    wOld,        \* the value of returnErr a worker read under the lock
    updCount,    \* history: VcsUpdate invocations per position of deps
    updDone,     \* history: positions whose VcsUpdate has returned
    updFailed,   \* history: positions whose VcsUpdate returned an error
    retVal,      \* the value ConcurrentUpdate returned
    \* ---- depsFromPackages (installer.go 376-403) ----
    pkgs,        \* the import paths handed to depsFromPackages
    aggPc,       \* "idle", "loop" or "done"
    aggI,        \* number of paths of pkgs already folded
    seen,        \* map[string]*cfg.Dependency: root -> position in aggDeps
    aggDeps,     \* deps: the records built so far, in order
    \* ---- the handlers the walker calls back (installer.go 405-581) ----
    hState,      \* the handlers wired into the walker: "none", "missing",
                 \* "version" or "both"
    cfgIgnore,   \* Config.Ignore: the ignore rules (import paths)
    mRootPackage,\* MissingPackageHandler.RootPackage
    vRootPackage,\* VersionHandler.RootPackage
    useGopath,   \* MissingPackageHandler.useGopath
    gopaths,     \* gpath.Gopaths(): per local source root, the paths in it
    vendor,      \* the paths that exist under the destination directory
    heap,        \* the *cfg.Dependency records the maps point to
    Deps,        \* VersionHandler.Deps: root -> record (pinned)
    Use,         \* VersionHandler.Use: root -> record (candidate)
    Imported,    \* VersionHandler.Imported: the roots already scanned
    Conflicts,   \* VersionHandler.Conflicts: messages already reported
    emitted,     \* history: msg.Warn calls per conflict message
    call,        \* history: the latest callback, its result and effects
    metered,     \* whether the walker makes a bounded number of callbacks
    walkLeft,    \* the callbacks a metered walker still makes
    \* ---- Installer (installer.go 20-285) ----
    iPc,         \* "idle", "walk" (resolving imports) or "resolved"
    iEntry,      \* the entry point running: "Update", "List" or "none"
    iRootPackage,\* Installer.RootPackage
    iUseGopath,  \* Installer.UseGopath
    iArgs,       \* the arguments of the entry point that ran (lock or conf)
    attempted,   \* history: the records handed to VcsUpdate, in call order
    failedNames, \* history: the names whose VcsUpdate returned an error
    cuCalls,     \* history: number of ConcurrentUpdate invocations
    iErr,        \* the error the entry point returned
    iRet,        \* the configuration or list the entry point returned
    merged       \* history: each record before and after the overlay

\* ---- ConcurrentUpdate (installer.go 288-333) ----
cuVars == <<deps, mainPc, ii, di, in, done, wg, lock, returnErr, wPc, wDep,
            wOld, updCount, updDone, updFailed, retVal>>

\* ---- depsFromPackages (installer.go 376-403) ----
aggVars == <<pkgs, aggPc, aggI, seen, aggDeps>>

\* ---- MissingPackageHandler and VersionHandler (installer.go 405-581) ----
hCfgVars == <<hState, cfgIgnore, mRootPackage, vRootPackage, useGopath,
              gopaths, metered>>

\* the state SetVersion works on
vhVars == <<heap, Deps, Use, Imported, Conflicts, emitted>>

hVars == <<hCfgVars, vendor, vhVars, call, walkLeft>>

\* ---- Installer (installer.go 20-285) ----
iVars == <<iPc, iEntry, iRootPackage, iUseGopath, iArgs, attempted,
           failedNames, cuCalls, iErr, iRet, merged>>

\* what an entry point leaves behind when it returns
entryOut == <<iArgs, attempted, failedNames, cuCalls, iErr, iRet, merged>>

vars == <<cuVars, aggVars, hVars, iVars>>

\* the variables ConcurrentUpdate leaves alone
notCU == <<aggVars, hVars, iVars>>

\* the variables depsFromPackages leaves alone
notAgg == <<cuVars, hVars, iVars>>

\* the variables the handlers leave alone
notH == <<cuVars, aggVars, iVars>>

-----------------------------------------------------------------------------
(* Bounds of the model *)

\* longest dependency list handed to ConcurrentUpdate
MaxDeps == 3

\* longest sequence of import paths handed to depsFromPackages
MaxPkgs == 3

\* longest list of requirements a scanned manifest declares
MaxScan == 2

\* the callbacks a metered walker makes at most
MaxWalk == 2

\* longest list of entries a lock or a manifest declares
MaxEntries == 2

\* the callbacks the walker makes at most inside one Update or List call
MaxResolve == 1

-----------------------------------------------------------------------------
(* The value of each group of variables while its component is not running *)

CUIdle ==
    /\ deps = <<>> /\ mainPc = "idle" /\ ii = 0 /\ di = 0 /\ in = <<>>
    /\ done = 0 /\ wg = 0 /\ lock = 0 /\ returnErr = <<>>
    /\ wPc = <<>> /\ wDep = <<>> /\ wOld = <<>>
    /\ updCount = <<>> /\ updDone = {} /\ updFailed = {} /\ retVal = <<>>

AggIdle ==
    /\ pkgs = <<>> /\ aggPc = "idle" /\ aggI = 0 /\ seen = <<>>
    /\ aggDeps = <<>>

HIdle ==
    /\ hState = "none" /\ cfgIgnore = {} /\ mRootPackage = ""
    /\ vRootPackage = "" /\ useGopath = FALSE /\ gopaths = <<>>
    /\ vendor = {} /\ heap = <<>> /\ Deps = <<>> /\ Use = <<>>
    /\ Imported = {} /\ Conflicts = {} /\ emitted = <<>> /\ call = <<>>
    /\ metered = FALSE /\ walkLeft = 0

\* no entry point has run yet
EntryFresh ==
    /\ iArgs = <<>> /\ attempted = <<>> /\ failedNames = {} /\ cuCalls = 0
    /\ iErr = <<>> /\ iRet = <<>> /\ merged = <<>>

IIdle ==
    /\ iPc = "idle" /\ iEntry = "none" /\ iRootPackage = ""
    /\ iUseGopath = FALSE
    /\ EntryFresh

-----------------------------------------------------------------------------
(* Errors.  nil is the empty tuple; an error is a tree whose leaves are    *)
(* the individual errors and whose inner nodes are cli.MultiError values.  *)

Nil == <<>>

\* the error VcsUpdate returns for the record at position i
UpdateErr(i) == <<"err", i>>

\* cli.NewMultiError(a, b): a MultiError holding a and b, in that order
NewMultiError(a, b) == <<"multi", a, b>>

RECURSIVE ErrLeaves(_)
\* the individual errors a (possibly nested) combined error holds
ErrLeaves(e) ==
    IF e = Nil THEN {}
    ELSE IF e[1] = "err" THEN {e[2]}
    ELSE ErrLeaves(e[2]) \cup ErrLeaves(e[3])

-----------------------------------------------------------------------------
(* ConcurrentUpdate *)

\* the size of the worker pool, and the capacity of both channels
concurrentWorkers == 2

Workers == 1..concurrentWorkers

\* state after `done`, `in`, wg, lock and returnErr are declared (289-293)
CUStart(list) ==
    /\ deps = list
    /\ mainPc = "spawn"
    /\ ii = 0
    /\ di = 0
    /\ in = <<>>
    /\ done = 0
    /\ wg = 0
    /\ lock = 0
    /\ returnErr = Nil
    /\ wPc = [w \in Workers |-> "unborn"]
    /\ wDep = [w \in Workers |-> 0]
    /\ wOld = [w \in Workers |-> Nil]
    /\ updCount = [i \in 1..Len(list) |-> 0]
    /\ updDone = {}
    /\ updFailed = {}
    /\ retVal = Nil

\* the lists of length 0..MaxDeps; a record is named by its position
DepLists == {[i \in 1..n |-> i] : n \in 0..MaxDeps}

\* for ii := 0; ii < concurrentWorkers; ii++ { go func(ch) {...}(in) }
MainSpawn ==
    /\ mainPc = "spawn"
    /\ IF ii < concurrentWorkers
       THEN /\ wPc' = [wPc EXCEPT ![ii + 1] = "select"]
            /\ ii' = ii + 1
            /\ UNCHANGED mainPc
       ELSE /\ mainPc' = "add"
            /\ UNCHANGED <<wPc, ii>>
    /\ UNCHANGED <<deps, di, in, done, wg, lock, returnErr, wDep, wOld,
                   updCount, updDone, updFailed, retVal>>
    /\ UNCHANGED notCU

\* for _, dep := range deps { wg.Add(1) ...
MainAdd ==
    /\ mainPc = "add"
    /\ IF di < Len(deps)
       THEN /\ wg' = wg + 1
            /\ mainPc' = "send"
       ELSE /\ mainPc' = "wait"
            /\ UNCHANGED wg
    /\ UNCHANGED <<deps, ii, di, in, done, lock, returnErr, wPc, wDep, wOld,
                   updCount, updDone, updFailed, retVal>>
    /\ UNCHANGED notCU

\* ... in <- dep }   (blocks while the buffer is full)
MainSend ==
    /\ mainPc = "send"
    /\ Len(in) < concurrentWorkers
    /\ in' = Append(in, deps[di + 1])
    /\ di' = di + 1
    /\ mainPc' = "add"
    /\ UNCHANGED <<deps, ii, done, wg, lock, returnErr, wPc, wDep, wOld,
                   updCount, updDone, updFailed, retVal>>
    /\ UNCHANGED notCU

\* fault: a dispatcher that does not wait for the counter
WaitGroupZeroNoWait == TRUE

\* wg.Wait() returns once the counter is zero
WaitGroupZero == wg = 0

MainWait ==
    /\ mainPc = "wait"
    /\ WaitGroupZero
    /\ mainPc' = "signal"
    /\ ii' = 0
    /\ UNCHANGED <<deps, di, in, done, wg, lock, returnErr, wPc, wDep, wOld,
                   updCount, updDone, updFailed, retVal>>
    /\ UNCHANGED notCU

\* for ii := 0; ii < concurrentWorkers; ii++ { done <- struct{}{} }
MainSignal ==
    /\ mainPc = "signal"
    /\ IF ii < concurrentWorkers
       THEN /\ done < concurrentWorkers
            /\ done' = done + 1
            /\ ii' = ii + 1
            /\ UNCHANGED <<mainPc, retVal>>
       ELSE \* return returnErr
            /\ mainPc' = "returned"
            /\ retVal' = returnErr
            /\ UNCHANGED <<done, ii>>
    /\ UNCHANGED <<deps, di, in, wg, lock, returnErr, wPc, wDep, wOld,
                   updCount, updDone, updFailed>>
    /\ UNCHANGED notCU

\* fault: a worker that takes the next record while its VcsUpdate runs
AtSelectOrUpdating(w) == wPc[w] \in {"select", "update"}

\* the worker is at its select: the call of VcsUpdate is made by the worker
\* itself, which comes back to the select only after it has returned
AtSelect(w) == wPc[w] = "select"

\* select { case dep := <-ch: VcsUpdate(dep, cwd, i) is entered
WorkerReceive(w) ==
    /\ AtSelect(w)
    /\ in # <<>>
    /\ wDep' = [wDep EXCEPT ![w] = Head(in)]
    /\ in' = Tail(in)
    /\ updCount' = [updCount EXCEPT ![Head(in)] = @ + 1]
    /\ wPc' = [wPc EXCEPT ![w] = "update"]
    /\ UNCHANGED <<deps, mainPc, ii, di, done, wg, lock, returnErr, wOld,
                   updDone, updFailed, retVal>>
    /\ UNCHANGED notCU

\* VcsUpdate returns, with an error or without
WorkerUpdate(w) ==
    /\ wPc[w] = "update"
    /\ updDone' = updDone \cup {wDep[w]}
    /\ \E failed \in BOOLEAN :
          IF failed
          THEN /\ updFailed' = updFailed \cup {wDep[w]}
               /\ wPc' = [wPc EXCEPT ![w] = "lock"]
          ELSE /\ wPc' = [wPc EXCEPT ![w] = "wgdone"]
               /\ UNCHANGED updFailed
    /\ UNCHANGED <<deps, mainPc, ii, di, in, done, wg, lock, returnErr, wDep,
                   wOld, updCount, retVal>>
    /\ UNCHANGED notCU

\* fault: workers that append to returnErr without mutual exclusion
LockFreeNoMutex == TRUE

\* lock.Lock() is granted only while no worker holds the mutex
LockFree == lock = 0

WorkerLock(w) ==
    /\ wPc[w] = "lock"
    /\ LockFree
    /\ lock' = w
    /\ wPc' = [wPc EXCEPT ![w] = "read"]
    /\ UNCHANGED <<deps, mainPc, ii, di, in, done, wg, returnErr, wDep, wOld,
                   updCount, updDone, updFailed, retVal>>
    /\ UNCHANGED notCU

\* if returnErr == nil ... : the read of the shared value
WorkerRead(w) ==
    /\ wPc[w] = "read"
    /\ wOld' = [wOld EXCEPT ![w] = returnErr]
    /\ wPc' = [wPc EXCEPT ![w] = "write"]
    /\ UNCHANGED <<deps, mainPc, ii, di, in, done, wg, lock, returnErr, wDep,
                   updCount, updDone, updFailed, retVal>>
    /\ UNCHANGED notCU

\* returnErr = err, or returnErr = cli.NewMultiError(returnErr, err)
WorkerWrite(w) ==
    /\ wPc[w] = "write"
    /\ returnErr' = IF wOld[w] = Nil
                    THEN UpdateErr(wDep[w])
                    ELSE NewMultiError(wOld[w], UpdateErr(wDep[w]))
    /\ wPc' = [wPc EXCEPT ![w] = "unlock"]
    /\ UNCHANGED <<deps, mainPc, ii, di, in, done, wg, lock, wDep, wOld,
                   updCount, updDone, updFailed, retVal>>
    /\ UNCHANGED notCU

\* lock.Unlock()
WorkerUnlock(w) ==
    /\ wPc[w] = "unlock"
    /\ lock' = 0
    /\ wOld' = [wOld EXCEPT ![w] = Nil]
    /\ wPc' = [wPc EXCEPT ![w] = "wgdone"]
    /\ UNCHANGED <<deps, mainPc, ii, di, in, done, wg, returnErr, wDep,
                   updCount, updDone, updFailed, retVal>>
    /\ UNCHANGED notCU

\* wg.Done(), then back to the select
WorkerWgDone(w) ==
    /\ wPc[w] = "wgdone"
    /\ wg' = wg - 1
    /\ wDep' = [wDep EXCEPT ![w] = 0]
    /\ wPc' = [wPc EXCEPT ![w] = "select"]
    /\ UNCHANGED <<deps, mainPc, ii, di, in, done, lock, returnErr, wOld,
                   updCount, updDone, updFailed, retVal>>
    /\ UNCHANGED notCU

\* fault: workers that never look at the done channel
DoneReadyNever == FALSE

\* a signal is waiting in the done channel
DoneReady == done > 0

\* case <-done: return
WorkerExit(w) ==
    /\ wPc[w] = "select"
    /\ DoneReady
    /\ done' = done - 1
    /\ wPc' = [wPc EXCEPT ![w] = "exited"]
    /\ UNCHANGED <<deps, mainPc, ii, di, in, wg, lock, returnErr, wDep, wOld,
                   updCount, updDone, updFailed, retVal>>
    /\ UNCHANGED notCU

InitCU ==
    /\ \E list \in DepLists : CUStart(list)
    /\ AggIdle
    /\ HIdle
    /\ IIdle

NextCU ==
    \/ MainSpawn
    \/ MainAdd
    \/ MainSend
    \/ MainWait
    \/ MainSignal
    \/ \E w \in Workers : WorkerReceive(w)
    \/ \E w \in Workers : WorkerUpdate(w)
    \/ \E w \in Workers : WorkerLock(w)
    \/ \E w \in Workers : WorkerRead(w)
    \/ \E w \in Workers : WorkerWrite(w)
    \/ \E w \in Workers : WorkerUnlock(w)
    \/ \E w \in Workers : WorkerWgDone(w)
    \/ \E w \in Workers : WorkerExit(w)

SpecCU == InitCU /\ [][NextCU]_vars

\* the dispatching goroutine
Main == MainSpawn \/ MainAdd \/ MainSend \/ MainWait \/ MainSignal

\* one worker goroutine; VcsUpdate returns
Worker(w) ==
    \/ WorkerReceive(w) \/ WorkerUpdate(w) \/ WorkerLock(w)
    \/ WorkerRead(w) \/ WorkerWrite(w) \/ WorkerUnlock(w)
    \/ WorkerWgDone(w) \/ WorkerExit(w)

\* the Go scheduler runs every goroutine that can take a step, and every
\* VcsUpdate call returns
FairCU == WF_vars(Main) /\ \A w \in Workers : WF_vars(Worker(w))

SpecCUFair == SpecCU /\ FairCU

-----------------------------------------------------------------------------
(* Import paths.  An import path is a non-empty sequence of segments        *)
(* ("a/x" is <<"a", "x">>); a repository root is named by a string.         *)

\* util.GetRootFromPackage: the repository root of an import path
GetRootFromPackage(pkg) == pkg[1]

\* util.NormalizeName: (repository root, subpackage); the subpackage of a
\* path equal to its root is empty
NormalizeName(pkg) == <<GetRootFromPackage(pkg), Tail(pkg)>>

-----------------------------------------------------------------------------
(* depsFromPackages *)

\* the import paths the walker may hand over
AggPaths == {<<"a">>, <<"a", "x">>, <<"a", "z">>, <<"b">>, <<"b", "y">>}

RECURSIVE SeqsUpTo(_, _)
\* the sequences over S of length at most n
SeqsUpTo(S, n) ==
    IF n = 0 THEN {<<>>}
    ELSE LET shorter == SeqsUpTo(S, n - 1)
         IN  shorter \cup {Append(q, x) : q \in shorter, x \in S}

\* seen := make(map...); deps := []*cfg.Dependency{}
AggStart(list) ==
    /\ pkgs = list
    /\ aggPc = "loop"
    /\ aggI = 0
    /\ seen = <<>>
    /\ aggDeps = <<>>

\* fault: a fold that never finds a root in `seen`
AggSeenNever(rr) == FALSE

\* _, ok := seen[rr]
AggSeen(rr) == rr \in DOMAIN seen

\* one iteration of `for _, p := range pkgs`
AggStep ==
    /\ aggPc = "loop"
    /\ aggI < Len(pkgs)
    /\ LET rr == NormalizeName(pkgs[aggI + 1])[1]
           sp == NormalizeName(pkgs[aggI + 1])[2]
       IN  IF ~AggSeen(rr)
           THEN \* dd := &cfg.Dependency{Name: rr, Subpackages: subpkg}
                /\ aggDeps' = Append(aggDeps,
                      [Name |-> rr,
                       Subpackages |-> IF sp # <<>> THEN <<sp>> ELSE <<>>])
                /\ seen' = [r \in DOMAIN seen \cup {rr} |->
                              IF r = rr THEN Len(aggDeps) + 1 ELSE seen[r]]
           ELSE IF sp # <<>>
           THEN \* seen[rr].Subpackages = append(seen[rr].Subpackages, sp)
                /\ aggDeps' = [aggDeps EXCEPT ![seen[rr]].Subpackages =
                                                  Append(@, sp)]
                /\ UNCHANGED seen
           ELSE UNCHANGED <<seen, aggDeps>>
    /\ aggI' = aggI + 1
    /\ UNCHANGED <<pkgs, aggPc>>
    /\ UNCHANGED notAgg

\* return deps
AggReturn ==
    /\ aggPc = "loop"
    /\ aggI = Len(pkgs)
    /\ aggPc' = "done"
    /\ UNCHANGED <<pkgs, aggI, seen, aggDeps>>
    /\ UNCHANGED notAgg

InitAgg ==
    /\ \E list \in SeqsUpTo(AggPaths, MaxPkgs) : AggStart(list)
    /\ CUIdle
    /\ HIdle
    /\ IIdle

NextAgg == AggStep \/ AggReturn

SpecAgg == InitAgg /\ [][NextAgg]_vars

-----------------------------------------------------------------------------
(* Project configuration, filesystem and the external operations the       *)
(* handlers call                                                           *)

\* the repository roots and the import paths the walker may name
Roots == {"a", "b"}

Paths == {<<"a">>, <<"a", "x">>, <<"b">>, <<"b", "x">>}

\* the version references a manifest may request, and the revisions a
\* checkout may end up at (a reference may itself be a revision)
Refs == {"v1", "v2"}

Pins == {"p1", "v1"}

\* the import path that names a root
PathOf(root) == <<root>>

\* p is q, or a path prefix of q
IsPrefix(p, q) == Len(p) <= Len(q) /\ SubSeq(q, 1, Len(p)) = p

\* cfg.Config.HasIgnore: by exact name or by path prefix
HasIgnore(name) == \E v \in cfgIgnore : IsPrefix(v, name)

\* the directories os.MkdirAll creates for a path under the destination
DirsOf(path) == {SubSeq(path, 1, k) : k \in 1..Len(path)}

\* f with key mapped to val
Put(f, key, val) ==
    [x \in DOMAIN f \cup {key} |-> IF x = key THEN val ELSE f[x]]

\* the errors of the external operations
GetErr == <<"err", "VcsGet">>

MkdirErr == <<"err", "MkdirAll">>

CopyErr == <<"err", "CopyDir">>

ScanErr == <<"err", "Import">>

VersionErr == <<"err", "VcsVersion">>

\* a callback that returned (false, nil) and did nothing
NoEffect(op, pkg) ==
    [op |-> op, pkg |-> pkg, handled |-> FALSE, err |-> Nil,
     get |-> 0, getErr |-> Nil, copy |-> 0, logged |-> FALSE,
     scan |-> 0, version |-> 0, warned |-> FALSE, panic |-> FALSE]

\* the walker makes one more callback
Callback ==
    /\ ~metered \/ walkLeft > 0
    /\ walkLeft' = IF metered THEN walkLeft - 1 ELSE walkLeft

-----------------------------------------------------------------------------
(* MissingPackageHandler *)

\* root == m.RootPackage, or an ignore rule matches root or pkg (422-427)
NotFoundSkips(pkg) ==
    \/ GetRootFromPackage(pkg) = mRootPackage
    \/ HasIgnore(PathOf(GetRootFromPackage(pkg)))
    \/ HasIgnore(pkg)

\* fault: a NotFound that does not look for the directory before fetching
ExistsNever(path) == FALSE

\* _, err := os.Stat(dest); err == nil
Exists(path) == path \in vendor

\* the body of NotFound, for the callback `op` that runs it
NotFoundCall(pkg, op) ==
    LET root == GetRootFromPackage(pkg)
        dest == PathOf(root)
    IN  IF NotFoundSkips(pkg)
        THEN /\ call' = NoEffect(op, pkg)
             /\ UNCHANGED vendor
        ELSE IF Exists(dest)
        THEN /\ call' = [NoEffect(op, pkg) EXCEPT !.handled = TRUE]
             /\ UNCHANGED vendor
        ELSE \* VcsGet(d, dest, ...): succeeds, or fails and may leave dest
             \E ok \in BOOLEAN, left \in BOOLEAN :
                IF ok
                THEN /\ left
                     /\ vendor' = vendor \cup {dest}
                     /\ call' = [NoEffect(op, pkg) EXCEPT
                                    !.handled = TRUE, !.get = 1]
                ELSE /\ vendor' = IF left THEN vendor \cup {dest} ELSE vendor
                     /\ call' = [NoEffect(op, pkg) EXCEPT
                                    !.err = GetErr, !.get = 1,
                                    !.getErr = GetErr]

NotFound(pkg) ==
    /\ hState \in {"both", "missing"}
    /\ Callback
    /\ NotFoundCall(pkg, "NotFound")
    /\ UNCHANGED <<hCfgVars, vhVars>>
    /\ UNCHANGED notH

\* root == m.RootPackage, or an ignore rule matches root or pkg (456-461)
OnGopathSkips(pkg) ==
    \/ GetRootFromPackage(pkg) = mRootPackage
    \/ HasIgnore(PathOf(GetRootFromPackage(pkg)))
    \/ HasIgnore(pkg)

\* fault: an OnGopath that copies from a source root without looking
GopathHasAlways(g, pkg) == TRUE

\* _, err := os.Stat(filepath.Join(gp, pkg)); err == nil
GopathHas(g, pkg) == pkg \in gopaths[g]

\* the local source roots, in order, that hold pkg
GopathHits(pkg) == {g \in 1..Len(gopaths) : GopathHas(g, pkg)}

OnGopath(pkg) ==
    /\ hState \in {"both", "missing"}
    /\ Callback
    /\ IF ~useGopath
       THEN NotFoundCall(pkg, "OnGopath")
       ELSE IF OnGopathSkips(pkg)
       THEN /\ call' = NoEffect("OnGopath", pkg)
            /\ UNCHANGED vendor
       ELSE IF GopathHits(pkg) # {}
       THEN \* the first local source root that holds pkg is copied from
            \E outcome \in {"ok", "mkdir fails", "copy fails"} :
               IF outcome = "mkdir fails"
               THEN /\ call' = [NoEffect("OnGopath", pkg) EXCEPT
                                   !.err = MkdirErr]
                    /\ UNCHANGED vendor
               ELSE IF outcome = "copy fails"
               THEN /\ call' = [NoEffect("OnGopath", pkg) EXCEPT
                                   !.err = CopyErr, !.copy = 1]
                    /\ vendor' = vendor \cup DirsOf(pkg)
               ELSE /\ call' = [NoEffect("OnGopath", pkg) EXCEPT
                                   !.handled = TRUE, !.copy = 1]
                    /\ vendor' = vendor \cup DirsOf(pkg)
       ELSE \* msg.Error("Could not locate ..."); return false, nil
            /\ call' = [NoEffect("OnGopath", pkg) EXCEPT !.logged = TRUE]
            /\ UNCHANGED vendor
    /\ UNCHANGED <<hCfgVars, vhVars>>
    /\ UNCHANGED notH

-----------------------------------------------------------------------------
(* VersionHandler *)

\* fault: a SetVersion that tests the ignore rules against the root only
SetVersionSkipsRootOnly(pkg) ==
    \/ GetRootFromPackage(pkg) = vRootPackage
    \/ HasIgnore(PathOf(GetRootFromPackage(pkg)))

\* root == d.RootPackage, or an ignore rule matches root or pkg (518-523)
SetVersionSkips(pkg) ==
    \/ GetRootFromPackage(pkg) = vRootPackage
    \/ HasIgnore(PathOf(GetRootFromPackage(pkg)))
    \/ HasIgnore(pkg)

\* the names a scanned manifest may list
ScanNames == {"a", "b"}

\* the entries importer.Import may return: a name and a reference or none
ScanRecords == [Name : ScanNames, Reference : Refs \cup {""}]

\* the results (f, deps, err) of importer.Import
ScanResults ==
    {[f |-> ff, deps |-> <<>>, err |-> e] :
        ff \in BOOLEAN, e \in {Nil, ScanErr}}
    \cup {[f |-> TRUE, deps |-> l, err |-> Nil] :
             l \in SeqsUpTo(ScanRecords, MaxScan)}

\* fault: a scan that updates the record a name already has in place
RecordIdByName(root, name) == <<name, name>>

\* the record that the scan of `root` registers under `name`: each root is
\* scanned once and the last entry of a name overwrites the earlier ones,
\* so the pair names one allocation
RecordId(root, name) == <<root, name>>

\* fault: a scan that registers entries without a reference too
RegistersAlways(dep) == TRUE

\* if dep.Reference != "" { ... }
Registers(dep) == dep.Reference # ""

RECURSIVE ScanInto(_, _, _, _)
\* for _, dep := range deps { if dep.Reference != "" { d.Use[dep.Name] = dep } }
ScanInto(use, list, root, k) ==
    IF k > Len(list) THEN use
    ELSE ScanInto(IF Registers(list[k])
                  THEN Put(use, list[k].Name, RecordId(root, list[k].Name))
                  ELSE use,
                  list, root, k + 1)

\* the last entry of a scan that is registered under `name`
LastOf(list, name) ==
    LET ks == {k \in 1..Len(list) :
                  list[k].Name = name /\ Registers(list[k])}
    IN  list[CHOOSE k \in ks : \A j \in ks : j <= k]

\* the heap with the records a scan registers allocated
Allocate(h, list, root) ==
    LET names == {list[k].Name : k \in {j \in 1..Len(list) :
                                            Registers(list[j])}}
        new == {RecordId(root, n) : n \in names}
    IN  [id \in DOMAIN h \cup new |->
            IF id \in new
            THEN [Name |-> id[2],
                  Reference |-> LastOf(list, id[2]).Reference, Pin |-> ""]
            ELSE h[id]]

\* the heap without the records no map points to any more
Reachable(h, use, pinned) ==
    [id \in {use[r] : r \in DOMAIN use} \cup {pinned[r] : r \in DOMAIN pinned}
        |-> h[id]]

\* fmt.Sprintf("Conflict: %s version is %s, but also asked for %s\n", ...)
ConflictMsg(root, pin, ref) ==
    "Conflict: " \o root \o " version is " \o pin
        \o ", but also asked for " \o ref \o "\n"

\* number of times a message was handed to msg.Warn
Emitted(s) == IF s \in DOMAIN emitted THEN emitted[s] ELSE 0

\* fault: a SetVersion that takes every root for unpinned
FoundNever(root) == FALSE

\* v, found := d.Deps[root]
Found(root) == root \in DOMAIN Deps

\* fault: a SetVersion that does not look a message up before warning
NotReportedAlways(s) == TRUE

\* !d.Conflicts[s]
NotReported(s) == s \notin Conflicts

SetVersion(pkg) ==
    /\ hState \in {"both", "version"}
    /\ Callback
    /\ LET root == GetRootFromPackage(pkg)
       IN  IF SetVersionSkips(pkg)
           THEN /\ call' = NoEffect("SetVersion", pkg)
                /\ UNCHANGED vhVars
           ELSE \E sr \in ScanResults :
                LET scans == root \notin Imported
                    hit == scans /\ sr.f /\ sr.err = Nil
                    use1 == IF hit THEN ScanInto(Use, sr.deps, root, 1)
                            ELSE Use
                    heap1 == IF hit THEN Allocate(heap, sr.deps, root)
                             ELSE heap
                    e1 == IF scans /\ ~hit /\ sr.err # Nil THEN sr.err ELSE Nil
                    c1 == [NoEffect("SetVersion", pkg) EXCEPT
                              !.scan = IF scans THEN 1 ELSE 0, !.err = e1]
                IN  \* a call that does not scan has no scan result to draw
                    /\ scans \/ sr = [f |-> FALSE, deps |-> <<>>, err |-> Nil]
                    /\ Imported' = Imported \cup {root}
                    /\ Use' = use1
                    /\ IF Found(root)
                       THEN \* already pinned: report a conflict once
                            IF root \notin DOMAIN use1
                            THEN \* d.Use[root] is nil: the read panics
                                 /\ call' = [c1 EXCEPT !.panic = TRUE]
                                 /\ heap' = Reachable(heap1, use1, Deps)
                                 /\ UNCHANGED <<Deps, Conflicts, emitted>>
                            ELSE LET cand == heap1[use1[root]].Reference
                                     pinned == heap1[Deps[root]]
                                     s == ConflictMsg(root, pinned.Pin, cand)
                                     warn == /\ cand # ""
                                             /\ cand # pinned.Pin
                                             /\ cand # pinned.Reference
                                             /\ NotReported(s)
                                 IN  /\ Conflicts' = IF warn
                                                     THEN Conflicts \cup {s}
                                                     ELSE Conflicts
                                     /\ emitted' = IF warn
                                                   THEN Put(emitted, s,
                                                            Emitted(s) + 1)
                                                   ELSE emitted
                                     /\ call' = [c1 EXCEPT !.warned = warn]
                                     /\ heap' = Reachable(heap1, use1, Deps)
                                     /\ UNCHANGED Deps
                       ELSE IF root \notin DOMAIN use1
                       THEN \* version to set unknown
                            /\ call' = c1
                            /\ heap' = Reachable(heap1, use1, Deps)
                            /\ UNCHANGED <<Deps, Conflicts, emitted>>
                       ELSE \* VcsVersion(dep, d.Destination): on success
                            \* the record's Pin is the revision checked out
                            \E pin \in Pins \cup {""} :
                               LET dep == use1[root]
                                   heap2 == IF pin # ""
                                            THEN [heap1 EXCEPT ![dep].Pin = pin]
                                            ELSE heap1
                                   pinned2 == Put(Deps, root, dep)
                               IN  /\ call' = [c1 EXCEPT
                                         !.version = 1,
                                         !.err = IF pin = "" THEN VersionErr
                                                 ELSE e1]
                                   /\ Deps' = pinned2
                                   /\ heap' = Reachable(heap2, use1, pinned2)
                                   /\ UNCHANGED <<Conflicts, emitted>>
    /\ UNCHANGED <<hCfgVars, vendor>>
    /\ UNCHANGED notH

-----------------------------------------------------------------------------
(* The handlers under every sequence of callbacks *)

\* the ignore lists a configuration may hold
IgnoreChoices == {{}, {<<"b">>}, {<<"b", "x">>}}

\* the local source roots gpath.Gopaths() may list, with their content
GopathChoices ==
    {<<>>, << {<<"a", "x">>} >>, << {<<"b">>}, {<<"a", "x">>, <<"b">>} >>}

\* handlers as constructed, with every map made empty
HStart(state, ignore, mRoot, vRoot, gopath, locals, budget) ==
    /\ hState = state
    /\ metered = (budget > 0)
    /\ walkLeft = budget
    /\ cfgIgnore = ignore
    /\ mRootPackage = mRoot
    /\ vRootPackage = vRoot
    /\ useGopath = gopath
    /\ gopaths = locals
    /\ vendor = {}
    /\ heap = <<>>
    /\ Deps = <<>>
    /\ Use = <<>>
    /\ Imported = {}
    /\ Conflicts = {}
    /\ emitted = <<>>
    /\ call = NoEffect("none", <<>>)

\* a walker wired with one of the handlers, built by any caller with any
\* RootPackage and configuration, making any sequence of callbacks; the two
\* handlers share no state, so each is exercised on its own
InitH ==
    /\ \/ \E ignore \in IgnoreChoices, root \in {"", "b"} :
             HStart("version", ignore, root, root, FALSE, <<>>, 0)
       \/ \E ignore \in IgnoreChoices, root \in {"", "b"},
             gopath \in BOOLEAN, locals \in GopathChoices :
             HStart("missing", ignore, root, root, gopath, locals, 0)
    /\ CUIdle
    /\ AggIdle
    /\ IIdle

NextH ==
    \/ \E pkg \in Paths : NotFound(pkg)
    \/ \E pkg \in Paths : OnGopath(pkg)
    \/ \E pkg \in Paths : SetVersion(pkg)

SpecH == InitH /\ [][NextH]_vars

-----------------------------------------------------------------------------
(* Installer.Update and Installer.List, up to the end of the walk *)

\* m := &MissingPackageHandler{...}; v := &VersionHandler{...};
\* res.Handler = m; res.VersionHandler = v   (150-176)
UpdateBuild ==
    /\ iPc = "idle"
    /\ iEntry' = "Update"
    /\ iPc' = "walk"
    /\ hState' = "both"
    /\ mRootPackage' = ""
    /\ vRootPackage' = ""
    /\ useGopath' = iUseGopath
    /\ heap' = <<>> /\ Deps' = <<>> /\ Use' = <<>>
    /\ Imported' = {} /\ Conflicts' = {}
    /\ UNCHANGED <<cfgIgnore, gopaths, metered, vendor, emitted, call,
                   walkLeft, iRootPackage, iUseGopath, entryOut>>
    /\ UNCHANGED <<cuVars, aggVars>>

\* fault: a List that wires a MissingPackageHandler too
ListHandlersWithMissing == "both"

\* the handlers List wires into the walker: res.Handler is never set
ListHandlers == "version"

\* v := &VersionHandler{...}; res.VersionHandler = v   (227-242)
ListBuild ==
    /\ iPc = "idle"
    /\ iEntry' = "List"
    /\ iPc' = "walk"
    /\ hState' = ListHandlers
    /\ vRootPackage' = ""
    /\ heap' = <<>> /\ Deps' = <<>> /\ Use' = <<>>
    /\ Imported' = {} /\ Conflicts' = {}
    /\ UNCHANGED <<cfgIgnore, mRootPackage, useGopath, gopaths, metered,
                   vendor, emitted, call, walkLeft, iRootPackage, iUseGopath,
                   entryOut>>
    /\ UNCHANGED <<cuVars, aggVars>>

\* packages, err := allPackages(conf.Imports, res) returns
WalkReturns ==
    /\ iPc = "walk"
    /\ iPc' = "resolved"
    /\ hState' = "none"
    /\ UNCHANGED <<cfgIgnore, mRootPackage, vRootPackage, useGopath, gopaths,
                   metered, vendor, vhVars, call, walkLeft, iEntry,
                   iRootPackage, iUseGopath, entryOut>>
    /\ UNCHANGED <<cuVars, aggVars>>

\* the configurations an Installer is run with
InstIgnoreChoices == {{}, {<<"a", "x">>}}

InstGopaths == << {<<"b">>}, {<<"a", "x">>, <<"b">>} >>

InitInst ==
    /\ \E ignore \in InstIgnoreChoices :
          HStart("none", ignore, "", "", FALSE, InstGopaths, MaxWalk)
    /\ iPc = "idle"
    /\ iEntry = "none"
    /\ iRootPackage \in {"", "b"}
    /\ iUseGopath \in BOOLEAN
    /\ EntryFresh
    /\ CUIdle
    /\ AggIdle

NextInst ==
    \/ UpdateBuild
    \/ ListBuild
    \/ \E pkg \in Paths : NotFound(pkg)
    \/ \E pkg \in Paths : OnGopath(pkg)
    \/ \E pkg \in Paths : SetVersion(pkg)
    \/ WalkReturns

SpecInst == InitInst /\ [][NextInst]_vars

-----------------------------------------------------------------------------
(* Installer.Install, Checkout, Update and List from call to return.  A     *)
(* ConcurrentUpdate call is one step here: it hands every record of its     *)
(* list to VcsUpdate and returns nil exactly when no update failed.         *)

\* a *cfg.Dependency, with the fields the entry points read or write
Dependency(name, ref, pin, repo, vcs, subs) ==
    [Name |-> name, Reference |-> ref, Pin |-> pin, Repository |-> repo,
     VcsType |-> vcs, Subpackages |-> subs]

\* the entries of a lock: cfg.Lock with Name, Version, Repository, VcsType
LockEntries ==
    [Name : Roots, Version : {"v1"}, Repository : {""}, VcsType : {""}]

\* a lock file: lock.Imports and lock.DevImports
Locks ==
    [Imports : SeqsUpTo(LockEntries, MaxEntries),
     DevImports : SeqsUpTo(LockEntries, MaxEntries)]

\* newConf.Imports[k] = &cfg.Dependency{Name: v.Name, Reference: v.Version, ...}
FromLock(list) ==
    [k \in 1..Len(list) |->
        Dependency(list[k].Name, list[k].Version, "", list[k].Repository,
                   list[k].VcsType, <<>>)]

RECURSIVE DeDupeList(_)
\* cfg.Dependencies.DeDupe: the first record of each name is kept
DeDupeList(list) ==
    IF list = <<>> THEN <<>>
    ELSE LET front == DeDupeList(SubSeq(list, 1, Len(list) - 1))
             last == list[Len(list)]
         IN  IF \E k \in 1..Len(front) : front[k].Name = last.Name
             THEN front ELSE Append(front, last)

\* cfg.Config.DeDupe: each of the two lists loses its duplicates
DeDupe(conf) ==
    [Imports |-> DeDupeList(conf.Imports),
     DevImports |-> DeDupeList(conf.DevImports)]

\* the names of the records of a list, in order
NamesIn(list) == [k \in 1..Len(list) |-> list[k].Name]

\* the error gpath.Vendor returns
VendorErr == <<"err", "Vendor">>

\* the combined error ConcurrentUpdate returns when the updates of the
\* records named in `bad` failed: nil when none did
DispatchErr(bad) == IF bad = {} THEN Nil ELSE <<"failed", bad>>

\* if len(newConf.Imports) == 0 { ...; return newConf, nil }
InstallNothingToDo(newConf) == Len(newConf.Imports) = 0

\* Install(lock, conf)
Install ==
    /\ iPc = "idle"
    /\ \E lk \in Locks, vendorOk \in BOOLEAN :
          LET newConf == DeDupe([Imports |-> FromLock(lk.Imports),
                                 DevImports |-> FromLock(lk.DevImports)])
          IN  /\ iArgs' = [Imports |-> lk.Imports,
                           DevImports |-> lk.DevImports, useDev |-> FALSE]
              /\ IF ~vendorOk
                 THEN \* cwd, err := gpath.Vendor(); return conf, err
                      /\ iErr' = VendorErr
                      /\ iRet' = <<>>
                      /\ UNCHANGED <<attempted, failedNames, cuCalls>>
                 ELSE IF InstallNothingToDo(newConf)
                 THEN /\ iErr' = Nil
                      /\ iRet' = newConf
                      /\ UNCHANGED <<attempted, failedNames, cuCalls>>
                 ELSE \* ConcurrentUpdate(newConf.Imports, cwd, i)
                      \* ConcurrentUpdate(newConf.DevImports, cwd, i)
                      \* return newConf, nil
                      \E bad1 \in SUBSET (1..Len(newConf.Imports)),
                         bad2 \in SUBSET (1..Len(newConf.DevImports)) :
                         /\ attempted' = NamesIn(newConf.Imports)
                                            \o NamesIn(newConf.DevImports)
                         /\ failedNames' =
                               {newConf.Imports[k].Name : k \in bad1}
                               \cup {newConf.DevImports[k].Name : k \in bad2}
                         /\ cuCalls' = 2
                         /\ iErr' = Nil
                         /\ iRet' = newConf
    /\ iEntry' = "Install"
    /\ iPc' = "returned"
    /\ UNCHANGED <<iRootPackage, iUseGopath, merged>>
    /\ UNCHANGED <<cuVars, aggVars, hVars>>

\* the records a manifest handed to Checkout declares
CheckoutEntries == {Dependency(n, "v1", "", "", "", <<>>) : n \in Roots}

\* a manifest: conf.Imports and conf.DevImports
Manifests ==
    [Imports : SeqsUpTo(CheckoutEntries, MaxEntries),
     DevImports : SeqsUpTo(CheckoutEntries, MaxEntries)]

\* if err := ConcurrentUpdate(conf.Imports, dest, i); err != nil { return err }
CheckoutStopsAfter(err) == err # Nil

\* Checkout(conf, useDev)
Checkout ==
    /\ iPc = "idle"
    /\ \E conf \in Manifests, useDev \in BOOLEAN :
       \E bad1 \in SUBSET (1..Len(conf.Imports)) :
          LET names1 == {conf.Imports[k].Name : k \in bad1}
              err1 == DispatchErr(names1)
          IN  /\ iArgs' = [Imports |-> conf.Imports,
                           DevImports |-> conf.DevImports, useDev |-> useDev]
              /\ IF CheckoutStopsAfter(err1)
                 THEN /\ attempted' = NamesIn(conf.Imports)
                      /\ failedNames' = names1
                      /\ cuCalls' = 1
                      /\ iErr' = err1
                 ELSE IF useDev
                 THEN \* return ConcurrentUpdate(conf.DevImports, dest, i)
                      \E bad2 \in SUBSET (1..Len(conf.DevImports)) :
                         LET names2 == {conf.DevImports[k].Name : k \in bad2}
                         IN  /\ attempted' = NamesIn(conf.Imports)
                                                \o NamesIn(conf.DevImports)
                             /\ failedNames' = names1 \cup names2
                             /\ cuCalls' = 2
                             /\ iErr' = DispatchErr(names2)
                 ELSE /\ attempted' = NamesIn(conf.Imports)
                      /\ failedNames' = names1
                      /\ cuCalls' = 1
                      /\ iErr' = Nil
    /\ iRet' = <<>>
    /\ iEntry' = "Checkout"
    /\ iPc' = "returned"
    /\ UNCHANGED <<iRootPackage, iUseGopath, merged>>
    /\ UNCHANGED <<cuVars, aggVars, hVars>>

RECURSIVE depsFromPackages(_)
\* depsFromPackages as a function of the list of import paths
depsFromPackages(list) ==
    IF list = <<>> THEN <<>>
    ELSE LET front == depsFromPackages(SubSeq(list, 1, Len(list) - 1))
             rr == NormalizeName(list[Len(list)])[1]
             sp == NormalizeName(list[Len(list)])[2]
             at == {k \in 1..Len(front) : front[k].Name = rr}
         IN  IF at = {}
             THEN Append(front,
                         Dependency(rr, "", "", "", "",
                                    IF sp # <<>> THEN <<sp>> ELSE <<>>))
             ELSE IF sp # <<>>
             THEN [front EXCEPT ![CHOOSE k \in at : TRUE].Subpackages =
                                    Append(@, sp)]
             ELSE front

\* for _, dep := range conf.Imports { if dep.Name == d.Name { deps[k] = dep } }
FromConf(d, imports) ==
    LET ks == {k \in 1..Len(imports) : imports[k].Name = d.Name}
    IN  IF ks = {} THEN d
        ELSE imports[CHOOSE k \in ks : \A j \in ks : j <= k]

\* fault: an overlay that copies the pin only into an empty field
OverlayKeepsPin(d, d2) ==
    [d EXCEPT !.Pin = IF @ = "" THEN d2.Pin ELSE @,
              !.Repository = IF @ = "" THEN d2.Repository ELSE @,
              !.VcsType = IF @ = "" THEN d2.VcsType ELSE @,
              !.Reference = IF @ = "" THEN d2.Reference ELSE @]

\* d.Pin = d2.Pin; if d.Repository == "" { d.Repository = d2.Repository } ...
Overlay(d, d2) ==
    [d EXCEPT !.Pin = d2.Pin,
              !.Repository = IF @ = "" THEN d2.Repository ELSE @,
              !.VcsType = IF @ = "" THEN d2.VcsType ELSE @,
              !.Reference = IF @ = "" THEN d2.Reference ELSE @]

\* the repository and VCS kind of the manifest entries the reconciler
\* pinned, which the scan results of this model do not carry
VcsInfos == {<<"", "">>, <<"r2", "hg">>}

\* d2, found := v.Deps[d.Name]
PinnedRecord(name, info) ==
    Dependency(name, heap[Deps[name]].Reference, heap[Deps[name]].Pin,
               info[1], info[2], <<>>)

\* the two loops of lines 191-215 (255-279 in List): the records, each
\* before and after the overlay
Merge(packages, imports, info) ==
    LET deps0 == depsFromPackages(packages)
    IN  [k \in 1..Len(deps0) |->
            LET d == FromConf(deps0[k], imports)
            IN  [before |-> d,
                 found |-> d.Name \in DOMAIN Deps,
                 d2 |-> IF d.Name \in DOMAIN Deps
                        THEN PinnedRecord(d.Name, info) ELSE d,
                 after |-> IF d.Name \in DOMAIN Deps
                           THEN Overlay(d, PinnedRecord(d.Name, info))
                           ELSE d]]

\* conf.Imports as handed to Update or List; a record may hold a pin and
\* VCS fields of its own (Update itself stores such records, line 218)
ConfImports ==
    {<<>>,
     << Dependency("a", "", "", "", "", <<>>) >>,
     << Dependency("a", "v2", "p0", "r1", "git", <<>>) >>,
     << Dependency("b", "v2", "", "", "", <<>>),
        Dependency("a", "", "p0", "", "", <<>>) >>}

\* the lists of import paths the walker may return
PackageLists ==
    {<<>>, << <<"a">> >>, << <<"a", "x">>, <<"b">> >>,
     << <<"b", "x">>, <<"a", "x">>, <<"b">> >>}

\* allPackages returns without calling the walker when conf.Imports is
\* empty (337-339)
WalkConsistent(imports, packages) ==
    imports = <<>> => (packages = <<>> /\ call.op = "none")

\* packages, err := allPackages(conf.Imports, res); err != nil: msg.Die
WalkFails ==
    /\ iPc = "walk"
    /\ iPc' = "died"
    /\ hState' = "none"
    /\ UNCHANGED <<cfgIgnore, mRootPackage, vRootPackage, useGopath, gopaths,
                   metered, vendor, vhVars, call, walkLeft, iEntry,
                   iRootPackage, iUseGopath, entryOut>>
    /\ UNCHANGED <<cuVars, aggVars>>

\* Update from the return of allPackages to its own return (183-220)
UpdateReturn ==
    /\ iPc = "resolved"
    /\ iEntry = "Update"
    /\ \E imports \in ConfImports, packages \in PackageLists,
          info \in VcsInfos :
          LET m == Merge(packages, imports, info)
              deps2 == [k \in 1..Len(m) |-> m[k].after]
          IN  /\ WalkConsistent(imports, packages)
              /\ \E bad \in SUBSET (1..Len(deps2)) :
                    \* err = ConcurrentUpdate(deps, vpath, i)
                    /\ failedNames' = {deps2[k].Name : k \in bad}
                    /\ iErr' = DispatchErr({deps2[k].Name : k \in bad})
              /\ iArgs' = [Imports |-> imports, DevImports |-> <<>>,
                           useDev |-> FALSE]
              /\ merged' = m
              /\ attempted' = NamesIn(deps2)
              /\ cuCalls' = 1
              /\ iRet' = deps2
    /\ iPc' = "returned"
    /\ UNCHANGED <<iEntry, iRootPackage, iUseGopath>>
    /\ UNCHANGED <<cuVars, aggVars, hVars>>

\* List from the return of allPackages to its own return (249-284)
ListReturn ==
    /\ iPc = "resolved"
    /\ iEntry = "List"
    /\ \E imports \in ConfImports, packages \in PackageLists,
          info \in VcsInfos :
          LET m == Merge(packages, imports, info)
          IN  /\ WalkConsistent(imports, packages)
              /\ iArgs' = [Imports |-> imports, DevImports |-> <<>>,
                           useDev |-> FALSE]
              /\ merged' = m
              /\ iRet' = [k \in 1..Len(m) |-> m[k].after]
    /\ iPc' = "returned"
    /\ UNCHANGED <<iEntry, iRootPackage, iUseGopath, attempted, failedNames,
                   cuCalls, iErr>>
    /\ UNCHANGED <<cuVars, aggVars, hVars>>

InitEntry ==
    /\ HStart("none", {}, "", "", FALSE, InstGopaths, MaxResolve)
    /\ iPc = "idle"
    /\ iEntry = "none"
    /\ iRootPackage = ""
    /\ iUseGopath \in BOOLEAN
    /\ EntryFresh
    /\ CUIdle
    /\ AggIdle

NextEntry ==
    \/ Install
    \/ Checkout
    \/ UpdateBuild
    \/ ListBuild
    \/ \E pkg \in Paths : NotFound(pkg)
    \/ \E pkg \in Paths : OnGopath(pkg)
    \/ \E pkg \in Paths : SetVersion(pkg)
    \/ WalkReturns
    \/ WalkFails
    \/ UpdateReturn
    \/ ListReturn

SpecEntry == InitEntry /\ [][NextEntry]_vars

-----------------------------------------------------------------------------
(* Claims about the handlers *)

\* the project's own root, as the handler behind a callback knows it
RootPackageOf(op) == IF op = "SetVersion" THEN vRootPackage ELSE mRootPackage

\* the import path is a self reference, or its root or the path itself
\* matches an ignore rule
SkipCase(op, pkg) ==
    \/ pkg[1] = RootPackageOf(op)
    \/ \E v \in cfgIgnore : IsPrefix(v, <<pkg[1]>>) \/ IsPrefix(v, pkg)

\* C3: once Deps holds an entry for a root, no later SetVersion call changes
\* which record Deps holds for it, nor that record's fields, and VcsVersion
\* is never invoked for that root again.
C3_PinMonotonic ==
    [][\A r \in DOMAIN Deps :
          /\ r \in DOMAIN Deps'
          /\ Deps'[r] = Deps[r]
          /\ heap'[Deps[r]] = heap[Deps[r]]
          /\ ~(call'.version = 1 /\ call'.pkg[1] = r)]_vars

\* C3 witness: a repeat visit to a pinned root for which a later scan has
\* registered another candidate with another reference
C3_Witness ==
    /\ call.op = "SetVersion"
    /\ call.version = 0
    /\ call.pkg[1] \in DOMAIN Deps
    /\ Use[call.pkg[1]] # Deps[call.pkg[1]]
    /\ heap[Use[call.pkg[1]]].Reference # heap[Deps[call.pkg[1]]].Reference

\* a SetVersion step visits an already pinned root whose candidate (after
\* the step's own scan) differs from the pinned record's pin and reference
ObservesConflict ==
    /\ call'.op = "SetVersion"
    /\ ~SkipCase("SetVersion", call'.pkg)
    /\ call'.pkg[1] \in DOMAIN Deps
    /\ call'.pkg[1] \in DOMAIN Use'
    /\ heap'[Use'[call'.pkg[1]]].Reference # heap[Deps[call'.pkg[1]]].Pin
    /\ heap'[Use'[call'.pkg[1]]].Reference # heap[Deps[call'.pkg[1]]].Reference

\* C4: every conflict observed on a repeat visit has been emitted exactly
\* once, however often it is observed; no message is ever emitted twice; and
\* a warning is emitted only by a repeat visit to a pinned root whose
\* candidate reference differs from the pinned record's pin and reference.
C4_ConflictsReportedOnce ==
    [][/\ \A s \in DOMAIN emitted' : emitted'[s] <= 1
       /\ ObservesConflict =>
             LET r == call'.pkg[1]
                 s == ConflictMsg(r, heap[Deps[r]].Pin,
                                  heap'[Use'[r]].Reference)
             IN  s \in DOMAIN emitted' /\ emitted'[s] = 1
       /\ (call'.warned \/ emitted' # emitted) => ObservesConflict]_vars

\* C4 witness: a repeat visit observed a conflict that had been emitted
\* before, and emitted nothing
C4_Witness ==
    /\ call.op = "SetVersion"
    /\ ~call.warned
    /\ call.pkg[1] \in DOMAIN Deps
    /\ LET r == call.pkg[1]
           cand == heap[Use[r]].Reference
       IN  /\ cand # heap[Deps[r]].Pin
           /\ cand # heap[Deps[r]].Reference
           /\ Emitted(ConflictMsg(r, heap[Deps[r]].Pin, cand)) = 1

\* C5: a callback for a self reference or an ignored path returns no error
\* (and handled=false), fetches, copies, scans and sets nothing, and leaves
\* the destination and the four maps as they were.
C5_SkipLeavesEverythingUnchanged ==
    [][(call'.op # "none" /\ SkipCase(call'.op, call'.pkg)) =>
          /\ call'.err = Nil
          /\ ~call'.handled
          /\ call'.get = 0 /\ call'.copy = 0
          /\ call'.scan = 0 /\ call'.version = 0 /\ ~call'.warned
          /\ UNCHANGED <<vendor, heap, Deps, Use, Imported, Conflicts,
                         emitted>>]_vars

\* C5 witness: SetVersion skipped a path that an ignore rule names in full,
\* under a root that is itself pinned
C5_Witness ==
    /\ call.op = "SetVersion"
    /\ call.pkg = <<"b", "x">>
    /\ cfgIgnore = {<<"b", "x">>}
    /\ "b" \in DOMAIN Deps
    /\ call.err = Nil

\* C9: NotFound for a path that is neither a self reference nor ignored
\* fetches nothing and returns (true, nil) when the root's directory exists;
\* otherwise it calls VcsGet exactly once and returns (true, nil) when that
\* succeeds, (false, the fetch's error) when it fails.
C9_NotFoundFetchesOnceOrNever ==
    [][(call'.op = "NotFound" /\ ~SkipCase("NotFound", call'.pkg)) =>
          IF <<call'.pkg[1]>> \in vendor
          THEN /\ call'.handled /\ call'.err = Nil
               /\ call'.get = 0
               /\ vendor' = vendor
          ELSE /\ call'.get = 1
               /\ call'.err = call'.getErr
               /\ call'.handled = (call'.getErr = Nil)
               /\ call'.handled => <<call'.pkg[1]>> \in vendor']_vars

\* C9 witness: a fetch failed and NotFound returned (false, its error)
C9_Witness ==
    /\ call.op = "NotFound"
    /\ ~SkipCase("NotFound", call.pkg)
    /\ call.get = 1
    /\ ~call.handled
    /\ call.err = GetErr

\* no configured local source root holds the package
NoLocalSource(pkg) == \A g \in 1..Len(gopaths) : pkg \notin gopaths[g]

\* C10 as claimed: OnGopath with the local-source fallback enabled, for a
\* path that no local source root holds, returns handled=false with a
\* non-nil error and copies nothing.
C10_NotLocatedReturnsError ==
    (/\ call.op = "OnGopath"
     /\ useGopath
     /\ ~SkipCase("OnGopath", call.pkg)
     /\ NoLocalSource(call.pkg)) =>
        /\ ~call.handled
        /\ call.err # Nil
        /\ call.copy = 0

\* C10 as amended: in that case OnGopath logs the error and returns
\* handled=false with a nil error; nothing is fetched or copied and the
\* destination is unchanged.
C10_NotLocatedLogsAndReturnsNil ==
    [][(/\ call'.op = "OnGopath"
        /\ useGopath
        /\ ~SkipCase("OnGopath", call'.pkg)
        /\ NoLocalSource(call'.pkg)) =>
           /\ ~call'.handled
           /\ call'.err = Nil
           /\ call'.logged
           /\ call'.copy = 0 /\ call'.get = 0
           /\ vendor' = vendor]_vars

\* C10 witness: OnGopath did not find the package in a non-empty list of
\* local source roots
C10_Witness ==
    /\ call.op = "OnGopath"
    /\ useGopath
    /\ ~SkipCase("OnGopath", call.pkg)
    /\ NoLocalSource(call.pkg)
    /\ Len(gopaths) > 0
    /\ call.logged

\* C13: a SetVersion call that invokes VcsVersion writes the root into Deps
\* exactly when VcsVersion succeeds; when it fails the call returns that
\* error and the root stays out of Deps.
C13_CommitOnlyOnSuccess ==
    (call.op = "SetVersion" /\ call.version = 1) =>
        IF call.err = VersionErr
        THEN call.pkg[1] \notin DOMAIN Deps
        ELSE call.pkg[1] \in DOMAIN Deps

\* C16 as claimed: once a root is in Deps, no later step changes the Use
\* entry of that root.
C16_CandidateImmuneOncePinned ==
    [][\A r \in DOMAIN Deps \cap DOMAIN Use :
          /\ r \in DOMAIN Use'
          /\ Use'[r] = Use[r]
          /\ heap'[Use'[r]] = heap[Use[r]]]_vars

\* C16 as amended: what is immune once a root is pinned is its Deps entry
\* and that record's fields; Use keeps every key, and an entry of Use is
\* added or replaced only by a SetVersion call that scans, for pinned and
\* unpinned roots alike, by a record of that scan that bears the root's name
\* and a non-empty reference.
C16_ScansOverwriteCandidatesNotPins ==
    [][/\ \A r \in DOMAIN Use : r \in DOMAIN Use'
       /\ \A r \in DOMAIN Use' :
             (r \notin DOMAIN Use \/ Use'[r] # Use[r]) =>
                /\ call'.op = "SetVersion"
                /\ call'.scan = 1
                /\ Use'[r] = RecordId(call'.pkg[1], r)
                /\ heap'[Use'[r]].Name = r
                /\ heap'[Use'[r]].Reference # ""
       /\ \A r \in DOMAIN Deps :
             /\ r \in DOMAIN Deps'
             /\ Deps'[r] = Deps[r]
             /\ heap'[Deps'[r]] = heap[Deps[r]]
             /\ (r \in DOMAIN Use /\ Use'[r] # Use[r]) =>
                   Use'[r] # Deps'[r]]_vars

\* C16 witness: the scan of another root has just replaced the candidate of
\* a pinned root by a record with another reference
C16_Witness ==
    /\ call.op = "SetVersion"
    /\ call.scan = 1
    /\ \E r \in DOMAIN Deps :
          /\ r # call.pkg[1]
          /\ Use[r] = RecordId(call.pkg[1], r)
          /\ Use[r] # Deps[r]
          /\ heap[Use[r]].Reference # heap[Deps[r]].Reference

\* C20: every root in Deps has an entry in Use, every entry of Use has a
\* non-empty reference, and no SetVersion call reads a missing candidate on
\* a repeat visit to a pinned root.
C20_PinnedRootsHaveCandidates ==
    /\ DOMAIN Deps \subseteq DOMAIN Use
    /\ \A r \in DOMAIN Use : heap[Use[r]].Reference # ""
    /\ ~call.panic

\* C20 witness: a repeat visit to a root that is pinned and already scanned
\* read the root's candidate for the conflict check
C20_Witness ==
    /\ call.op = "SetVersion"
    /\ call.scan = 0
    /\ call.version = 0
    /\ call.pkg[1] \in DOMAIN Deps
    /\ call.pkg[1] \in DOMAIN Use
    /\ ~call.panic

-----------------------------------------------------------------------------
(* Claims about the Installer *)

\* C6: while Update or List resolves imports for an Installer whose
\* RootPackage is a non-empty root R, a callback for a path under R is
\* skipped: it is not handled, and nothing is fetched, copied, scanned or
\* pinned for it.
C6_InstallerRootSkipped ==
    (/\ iPc = "walk"
     /\ iRootPackage # ""
     /\ call.op # "none"
     /\ call.pkg[1] = iRootPackage) =>
        /\ ~call.handled
        /\ call.get = 0 /\ call.copy = 0
        /\ call.scan = 0 /\ call.version = 0
        /\ iRootPackage \notin DOMAIN Deps

-----------------------------------------------------------------------------
(* Claims about the entry points *)

\* C11: whenever the update of at least one record failed during a call of
\* Install, Checkout or Update, the entry point returns a non-nil error.
C11_DispatchFailuresSurfaced ==
    (/\ iPc = "returned"
     /\ iEntry \in {"Install", "Checkout", "Update"}
     /\ failedNames # {}) =>
        iErr # Nil

\* C12: a call of List never runs ConcurrentUpdate, VcsUpdate or VcsGet and
\* wires no MissingPackageHandler: the only callbacks are SetVersion calls,
\* nothing is fetched or copied, and the destination stays as it was.
C12_ListNeverFetches ==
    iEntry = "List" =>
       /\ hState \in {"none", "version"}
       /\ call.op \in {"none", "SetVersion"}
       /\ call.get = 0 /\ call.copy = 0
       /\ vendor = {}
       /\ cuCalls = 0 /\ attempted = <<>> /\ failedNames = {}
       /\ iErr = Nil

\* C12 witness: List returned a non-empty list that carries fields of a
\* record the reconciler pinned during the walk
C12_Witness ==
    /\ iEntry = "List"
    /\ iPc = "returned"
    /\ call.op = "SetVersion"
    /\ Deps # <<>>
    /\ \E k \in 1..Len(merged) :
          merged[k].found /\ merged[k].after # merged[k].before
    /\ iRet # <<>>

\* C14: a Checkout call with useDev=true hands every development record of
\* the manifest to VcsUpdate, also when the update of a direct dependency
\* failed, and returns the failure afterwards.
C14_DevDependenciesAlwaysAttempted ==
    (/\ iPc = "returned"
     /\ iEntry = "Checkout"
     /\ iArgs.useDev) =>
        /\ attempted = NamesIn(iArgs.Imports) \o NamesIn(iArgs.DevImports)
        /\ failedNames # {} => iErr # Nil

\* C15: an Install call that got its destination hands every record built
\* from the lock and left by the deduplication, development records
\* included, to VcsUpdate; it attempts nothing only when there is none.
C15_InstallAttemptsEveryEntry ==
    (/\ iPc = "returned"
     /\ iEntry = "Install"
     /\ iErr = Nil) =>
        attempted = NamesIn(iRet.Imports) \o NamesIn(iRet.DevImports)

\* C17 as claimed: the overlay of Update and List leaves each of pin,
\* repository, VCS kind and reference of a record as it was when the
\* record's own field was non-empty before the overlay.
C17_OverlayOnlyWhereEmpty ==
    \A k \in 1..Len(merged) :
       LET before == merged[k].before
           after == merged[k].after
       IN  /\ before.Pin # "" => after.Pin = before.Pin
           /\ before.Repository # "" => after.Repository = before.Repository
           /\ before.VcsType # "" => after.VcsType = before.VcsType
           /\ before.Reference # "" => after.Reference = before.Reference

\* C17 as amended: a record whose root the reconciler pinned always takes
\* the pinned record's pin, and takes its repository, VCS kind and
\* reference only where the record's own field is empty; a record whose
\* root is not pinned is left as it was.
C17_PinAlwaysOverlaidRestWhereEmpty ==
    \A k \in 1..Len(merged) :
       LET before == merged[k].before
           after == merged[k].after
           d2 == merged[k].d2
       IN  IF merged[k].found
           THEN /\ after.Pin = d2.Pin
                /\ after.Repository = IF before.Repository # ""
                                      THEN before.Repository
                                      ELSE d2.Repository
                /\ after.VcsType = IF before.VcsType # ""
                                   THEN before.VcsType ELSE d2.VcsType
                /\ after.Reference = IF before.Reference # ""
                                     THEN before.Reference ELSE d2.Reference
                /\ after.Name = before.Name
                /\ after.Subpackages = before.Subpackages
           ELSE after = before

\* C17 witness: a record with a pin and a repository of its own met a
\* pinned record with another pin and another repository; it lost the pin
\* and kept the repository
C17_Witness ==
    \E k \in 1..Len(merged) :
       /\ merged[k].found
       /\ merged[k].before.Pin # ""
       /\ merged[k].d2.Pin # ""
       /\ merged[k].after.Pin # merged[k].before.Pin
       /\ merged[k].before.Repository # ""
       /\ merged[k].d2.Repository \notin {"", merged[k].before.Repository}
       /\ merged[k].after.Repository = merged[k].before.Repository

-----------------------------------------------------------------------------
(* Claims about depsFromPackages *)

RECURSIVE FirstSeen(_)
\* a sequence with every repeat of an earlier element dropped
FirstSeen(q) ==
    IF q = <<>> THEN <<>>
    ELSE LET front == FirstSeen(SubSeq(q, 1, Len(q) - 1))
             last == q[Len(q)]
         IN  IF \E k \in 1..Len(front) : front[k] = last
             THEN front ELSE Append(front, last)

\* the elements of a sequence
Range(q) == {q[k] : k \in 1..Len(q)}

\* the roots of a sequence of import paths, in order, repeats included
RootsOf(list) == [k \in 1..Len(list) |-> list[k][1]]

RECURSIVE SubsOf(_, _)
\* the non-empty subpackages the paths of a root carry, in order, repeats
\* included
SubsOf(list, root) ==
    IF list = <<>> THEN <<>>
    ELSE LET front == SubsOf(SubSeq(list, 1, Len(list) - 1), root)
             last == list[Len(list)]
         IN  IF last[1] = root /\ Len(last) > 1
             THEN Append(front, Tail(last)) ELSE front

\* C7: one record per distinct root, in first-occurrence order of the
\* roots; each record's subpackages in the order they were first
\* encountered; a path equal to its root contributes no subpackage.
C7_OneRecordPerRootInFirstSeenOrder ==
    aggPc = "done" =>
       /\ [k \in 1..Len(aggDeps) |-> aggDeps[k].Name] = FirstSeen(RootsOf(pkgs))
       /\ \A k \in 1..Len(aggDeps) :
             /\ FirstSeen(aggDeps[k].Subpackages) =
                   FirstSeen(SubsOf(pkgs, aggDeps[k].Name))
             /\ <<>> \notin Range(aggDeps[k].Subpackages)

\* C7 witness: the spec's example, [a/x, b/y, a/z] gives a [x, z] then b [y]
C7_Witness ==
    /\ aggPc = "done"
    /\ pkgs = << <<"a", "x">>, <<"b", "y">>, <<"a", "z">> >>
    /\ aggDeps = << [Name |-> "a", Subpackages |-> << <<"x">>, <<"z">> >>],
                    [Name |-> "b", Subpackages |-> << <<"y">> >>] >>

\* C8: each record carries the union of the subpackages encountered for its
\* root, and no subpackage is listed twice, whatever the input repeats.
C8_SubpackagesUnionNoDuplicates ==
    aggPc = "done" =>
       \A k \in 1..Len(aggDeps) :
          /\ Range(aggDeps[k].Subpackages) =
                Range(SubsOf(pkgs, aggDeps[k].Name))
          /\ \A m, n \in 1..Len(aggDeps[k].Subpackages) :
                m # n => aggDeps[k].Subpackages[m] # aggDeps[k].Subpackages[n]

-----------------------------------------------------------------------------
(* Claims about ConcurrentUpdate *)

\* C1: VcsUpdate is invoked exactly once for each record of the list (never
\* twice at any moment), and when ConcurrentUpdate has returned every record
\* has been handed to VcsUpdate once and that invocation has returned.
C1_EachRecordUpdatedOnceBeforeReturn ==
    /\ \A i \in 1..Len(deps) : updCount[i] <= 1
    /\ mainPc = "returned" =>
          /\ \A i \in 1..Len(deps) : updCount[i] = 1 /\ i \in updDone
          /\ \A w \in Workers : wPc[w] \in {"select", "exited"}

\* C1 witness: a list longer than the pool has been dispatched and returned
C1_Witness ==
    /\ mainPc = "returned"
    /\ Len(deps) > concurrentWorkers
    /\ \A i \in 1..Len(deps) : updCount[i] = 1

\* C2: a failure never keeps another record from being attempted; the
\* returned error is nil exactly when no record failed, and otherwise holds
\* the individual error of every failing record.
C2_FailSoftAggregates ==
    mainPc = "returned" =>
          /\ \A i \in 1..Len(deps) : updCount[i] = 1
          /\ (retVal = Nil) <=> (updFailed = {})
          /\ ErrLeaves(retVal) = updFailed

\* C2 witness: returned after two records failed and one succeeded
C2_Witness ==
    /\ mainPc = "returned"
    /\ Cardinality(updFailed) >= 2
    /\ Cardinality(updDone \ updFailed) >= 1
    /\ ErrLeaves(retVal) = updFailed

\* the records whose VcsUpdate has been entered and has not returned
InProgress == {i \in 1..Len(deps) : updCount[i] > 0 /\ i \notin updDone}

\* the worker goroutines started so far
Started == {w \in DOMAIN wPc : wPc[w] # "unborn"}

\* C18: at every moment at most concurrentWorkers VcsUpdate invocations are
\* in progress, whatever the length of the list; never more than
\* concurrentWorkers workers exist, and once the start loop is over exactly
\* concurrentWorkers have been started.
C18_BoundedConcurrency ==
    /\ Cardinality(InProgress) <= concurrentWorkers
    /\ InProgress = {wDep[w] : w \in {v \in Workers : wPc[v] = "update"}}
    /\ Cardinality(Started) <= concurrentWorkers
    /\ mainPc # "spawn" => Cardinality(Started) = concurrentWorkers

\* C18 witness: every worker is inside VcsUpdate while a further record of a
\* list longer than the pool waits in the queue
C18_Witness ==
    /\ Cardinality(InProgress) = concurrentWorkers
    /\ Len(deps) > concurrentWorkers
    /\ in # <<>>

\* the workers that have received a shutdown signal and exited
Exited == {w \in Workers : wPc[w] = "exited"}

\* the shutdown signals sent so far
SignalsSent ==
    IF mainPc = "signal" THEN ii
    ELSE IF mainPc = "returned" THEN concurrentWorkers ELSE 0

\* C19: shutdown signals are sent only after the update of every record has
\* completed and every worker is back at its select, the dispatcher is never
\* blocked while sending one, each signal is received by one worker which
\* then exits; and under fair scheduling with returning VcsUpdate calls
\* ConcurrentUpdate eventually has returned with every worker exited, the
\* queue empty and no signal left over.
C19_TerminatesWithoutLeak ==
    /\ [](/\ SignalsSent > 0 =>
                /\ updDone = 1..Len(deps)
                /\ in = <<>>
                /\ wg = 0
                /\ \A w \in Workers : wPc[w] \in {"select", "exited"}
          /\ (mainPc = "signal" /\ ii < concurrentWorkers) =>
                done < concurrentWorkers
          /\ Cardinality(Exited) + done = SignalsSent)
    /\ <>[](/\ mainPc = "returned"
            /\ Exited = Workers
            /\ done = 0
            /\ in = <<>>
            /\ \A i \in 1..Len(deps) : updCount[i] = 1)

\* C19 witness: a list longer than the pool, with a failed record, has been
\* dispatched; ConcurrentUpdate has returned and every worker has exited
C19_Witness ==
    /\ mainPc = "returned"
    /\ Exited = Workers
    /\ done = 0
    /\ Len(deps) > concurrentWorkers
    /\ updFailed # {}

====
